---- MODULE Spec2Model ----
(***************************************************************************)
(* Leg construction of ql/CashFlows/cashflowvectors.cpp: the four coupon   *)
(* vector builders (fixed rate, CMS, CMS zero, CMS in arrears), the        *)
(* broadcaster get() and the swaption-volatility attachment pass.          *)
(*                                                                         *)
(* Dates are day numbers, a Period is a number of days, Real values are    *)
(* integers (rates in basis points).  std::vector indices are 0-based in   *)
(* the source; a vector v is the sequence whose element v[i] is v[i+1].    *)
(***************************************************************************)
EXTENDS Integers, Sequences, FiniteSets, TLC

\* ------------------------------------------------------------------ bounds
MaxN == 5
MaxLen == 3
OptLen == 2
MaxIndex == 5
Tenor == 6
StubLen == 3
Origin == 8

\* ------------------------------------------------- external value domains
NullReal == 999999
NoError == "none"
EmptyDayCounter == "empty"
EmptyHandle == "emptyHandle"
DayCounters == {"Actual360", "Thirty360"}
Conventions == {"Following", "Preceding"}
VolHandles == {"volA", "volB"}

\* --------------------------------------------------------------- calendar
isBusinessDay(d) == d % 7 \notin {5, 6}

adjust(d, c) ==
    IF c = "Following"
    THEN CHOOSE x \in d..(d + 2) :
            isBusinessDay(x) /\ \A y \in d..(x - 1) : ~isBusinessDay(y)
    ELSE IF c = "Preceding"
    THEN CHOOSE x \in (d - 2)..d :
            isBusinessDay(x) /\ \A y \in (x + 1)..d : ~isBusinessDay(y)
    ELSE d

\* --------------------------------------------------------------- schedule
\* A schedule is a record [dates, regular, tenor, businessDayConvention]:
\* dates has N entries, regular has N-1 (regular[i] is isRegular(i)).
size(schedule) == Len(schedule.dates)
date(schedule, i) == schedule.dates[i + 1]
isRegular(schedule, i) == schedule.regular[i]
tenor(schedule) == schedule.tenor
businessDayConvention(schedule) == schedule.businessDayConvention

\* ------------------------------------------------------------ std::vector
\* operator[] outside the vector is undefined behaviour: UndefinedRead marks
\* such a read, and the action that observes it draws the value read
UndefinedRead == 888888
empty(v) == Len(v) = 0
at(v, i) == IF i < Len(v) THEN v[i + 1] ELSE UndefinedRead
back(v) == at(v, Len(v) - 1)
push_back(leg, c) == Append(leg, c)

\* ---------------------------------------------------------------- coupons
FixedRateCoupon(nominal, paymentDate, rate, dayCounter, accrualStartDate, accrualEndDate, refPeriodStart, refPeriodEnd) ==
    [kind |-> "FixedRateCoupon", nominal |-> nominal,
     paymentDate |-> paymentDate, rate |-> rate, dayCounter |-> dayCounter,
     accrualStartDate |-> accrualStartDate,
     accrualEndDate |-> accrualEndDate,
     refPeriodStart |-> refPeriodStart, refPeriodEnd |-> refPeriodEnd]

CMSCouponInArrears(nominal, paymentDate, index, startDate, endDate, settlementDays, dayCounter, pricer, gearing, spread, cap, floor, meanReversion, refPeriodStart, refPeriodEnd, isInArrears) ==
    [kind |-> "CMSCoupon", nominal |-> nominal, paymentDate |-> paymentDate,
     index |-> index, accrualStartDate |-> startDate,
     accrualEndDate |-> endDate, settlementDays |-> settlementDays,
     dayCounter |-> dayCounter, pricer |-> pricer, gearing |-> gearing,
     spread |-> spread, cap |-> cap, floor |-> floor,
     meanReversion |-> meanReversion, refPeriodStart |-> refPeriodStart,
     refPeriodEnd |-> refPeriodEnd, isInArrears |-> isInArrears,
     swaptionVol |-> EmptyHandle]

\* the constructor called without its last argument: isInArrears = false
CMSCoupon(nominal, paymentDate, index, startDate, endDate, settlementDays, dayCounter, pricer, gearing, spread, cap, floor, meanReversion, refPeriodStart, refPeriodEnd) ==
    CMSCouponInArrears(nominal, paymentDate, index, startDate, endDate,
                       settlementDays, dayCounter, pricer, gearing, spread,
                       cap, floor, meanReversion, refPeriodStart,
                       refPeriodEnd, FALSE)

setSwaptionVolatility(coupon, vol) == [coupon EXCEPT !.swaptionVol = vol]

\* ------------------------------------------------------------ broadcaster
getInclusiveBound(v, i, defaultValue) ==
    IF empty(v) THEN defaultValue
    ELSE IF i <= Len(v) THEN at(v, i)
    ELSE back(v)

get(v, i, defaultValue) ==
    IF empty(v) THEN defaultValue
    ELSE IF i < Len(v) THEN at(v, i)
    ELSE back(v)

\* --------------------------------------------------- the builders' guards
\* the last period is built apart from the first one only when there is one
hasLastPeriodFromTwo(schedule) == size(schedule) >= 2

hasLastPeriod(schedule) == size(schedule) > 2

\* QL_REQUIRE of the regular first period of the fixed-rate builder
firstPeriodDayCountAllowedEmptyOnly(firstPeriodDayCount, dayCount) ==
    firstPeriodDayCount = EmptyDayCounter

firstPeriodDayCountAllowed(firstPeriodDayCount, dayCount) ==
    firstPeriodDayCount = EmptyDayCounter \/ firstPeriodDayCount = dayCount

\* ------------------------------------------------------ builders' results
\* a call ends by returning a leg or by throwing: built counts the coupons
\* constructed before it ended
Returned(leg) == [error |-> NoError, leg |-> leg, built |-> Len(leg)]
Thrown(message, built) == [error |-> message, leg |-> <<>>, built |-> built]

\* the local variables of a builder between two of its blocks
Locals(leg, start, end, paymentDate, rate, nominal, error) ==
    [leg |-> leg, start |-> start, end |-> end, paymentDate |-> paymentDate,
     rate |-> rate, nominal |-> nominal, error |-> error]

\* --------------------------------------------------- FixedRateCouponVector
FixedFirstPeriod(schedule, paymentAdjustment, nominals, couponRates, dayCount, firstPeriodDayCount) ==
    LET start == date(schedule, 0)
        end == date(schedule, 1)
        paymentDate == adjust(end, paymentAdjustment)
        rate == at(couponRates, 0)
        nominal == at(nominals, 0)
    IN  IF isRegular(schedule, 1)
        THEN IF ~firstPeriodDayCountAllowed(firstPeriodDayCount, dayCount)
             THEN Locals(<<>>, start, end, paymentDate, rate, nominal,
                         "regular first coupon does not allow a first-period day count")
             ELSE Locals(push_back(<<>>,
                             FixedRateCoupon(nominal, paymentDate, rate,
                                             dayCount, start, end, start, end)),
                         start, end, paymentDate, rate, nominal, NoError)
        ELSE LET reference == adjust(end - tenor(schedule),
                                     businessDayConvention(schedule))
                 dc == IF firstPeriodDayCount = EmptyDayCounter
                       THEN dayCount ELSE firstPeriodDayCount
             IN  Locals(push_back(<<>>,
                            FixedRateCoupon(nominal, paymentDate, rate, dc,
                                            start, end, reference, end)),
                        start, end, paymentDate, rate, nominal, NoError)

\* FixedRegularPeriod keeping the accrual start of the period before
FixedRegularPeriodStaleStart(schedule, paymentAdjustment, nominals, couponRates, dayCount, l, i) ==
    LET start == l.start
        end == date(schedule, i)
        paymentDate == adjust(end, paymentAdjustment)
        rate == IF (i - 1) < Len(couponRates)
                THEN at(couponRates, i - 1) ELSE back(couponRates)
        nominal == IF (i - 1) < Len(nominals)
                   THEN at(nominals, i - 1) ELSE back(nominals)
    IN  Locals(push_back(l.leg,
                   FixedRateCoupon(nominal, paymentDate, rate, dayCount,
                                   start, end, start, end)),
               start, end, paymentDate, rate, nominal, NoError)

\* one iteration of the loop over the regular periods
FixedRegularPeriod(schedule, paymentAdjustment, nominals, couponRates, dayCount, l, i) ==
    LET start == l.end
        end == date(schedule, i)
        paymentDate == adjust(end, paymentAdjustment)
        rate == IF (i - 1) < Len(couponRates)
                THEN at(couponRates, i - 1) ELSE back(couponRates)
        nominal == IF (i - 1) < Len(nominals)
                   THEN at(nominals, i - 1) ELSE back(nominals)
    IN  Locals(push_back(l.leg,
                   FixedRateCoupon(nominal, paymentDate, rate, dayCount,
                                   start, end, start, end)),
               start, end, paymentDate, rate, nominal, NoError)

RECURSIVE FixedRegularPeriods(_, _, _, _, _, _, _)
FixedRegularPeriods(schedule, paymentAdjustment, nominals, couponRates, dayCount, l, i) ==
    IF i < size(schedule) - 1
    THEN FixedRegularPeriods(schedule, paymentAdjustment, nominals,
             couponRates, dayCount,
             FixedRegularPeriod(schedule, paymentAdjustment, nominals,
                                couponRates, dayCount, l, i),
             i + 1)
    ELSE l

FixedLastPeriod(schedule, paymentAdjustment, nominals, couponRates, dayCount, l) ==
    IF hasLastPeriod(schedule)
    THEN LET N == size(schedule)
             start == l.end
             end == date(schedule, N - 1)
             paymentDate == adjust(end, paymentAdjustment)
             rate == IF (N - 2) < Len(couponRates)
                     THEN at(couponRates, N - 2) ELSE back(couponRates)
             nominal == IF (N - 2) < Len(nominals)
                        THEN at(nominals, N - 2) ELSE back(nominals)
         IN  IF isRegular(schedule, N - 1)
             THEN Locals(push_back(l.leg,
                             FixedRateCoupon(nominal, paymentDate, rate,
                                             dayCount, start, end, start, end)),
                         start, end, paymentDate, rate, nominal, NoError)
             ELSE LET reference == adjust(start + tenor(schedule),
                                          businessDayConvention(schedule))
                  IN  Locals(push_back(l.leg,
                                 FixedRateCoupon(nominal, paymentDate, rate,
                                                 dayCount, start, end, start,
                                                 reference)),
                             start, end, paymentDate, rate, nominal, NoError)
    ELSE l

\* FixedRateCouponVector without its check of the nominals
FixedRateCouponVectorNoNominalsCheck(schedule, paymentAdjustment, nominals, couponRates, dayCount, firstPeriodDayCount) ==
    IF empty(couponRates) THEN Thrown("coupon rates not specified", 0)
    ELSE LET first == FixedFirstPeriod(schedule, paymentAdjustment, nominals,
                          couponRates, dayCount, firstPeriodDayCount)
         IN  IF first.error # NoError
             THEN Thrown(first.error, Len(first.leg))
             ELSE Returned(
                    FixedLastPeriod(schedule, paymentAdjustment, nominals,
                        couponRates, dayCount,
                        FixedRegularPeriods(schedule, paymentAdjustment,
                            nominals, couponRates, dayCount, first, 2)).leg)

FixedRateCouponVector(schedule, paymentAdjustment, nominals, couponRates, dayCount, firstPeriodDayCount) ==
    IF empty(couponRates) THEN Thrown("coupon rates not specified", 0)
    ELSE IF empty(nominals) THEN Thrown("nominals not specified", 0)
    ELSE LET first == FixedFirstPeriod(schedule, paymentAdjustment, nominals,
                          couponRates, dayCount, firstPeriodDayCount)
         IN  IF first.error # NoError
             THEN Thrown(first.error, Len(first.leg))
             ELSE Returned(
                    FixedLastPeriod(schedule, paymentAdjustment, nominals,
                        couponRates, dayCount,
                        FixedRegularPeriods(schedule, paymentAdjustment,
                            nominals, couponRates, dayCount, first, 2)).leg)


\* ------------------------------------------------------------ CMS builders
\* the local variables of a CMS builder between two of its blocks
CMSLocals(leg, start, end, paymentDate) ==
    [leg |-> leg, start |-> start, end |-> end, paymentDate |-> paymentDate]

\* the body of the loop that attaches the swaption volatility: r is the leg
\* so far and the error raised so far
setSwaptionVolatilityAt(r, vol, i) ==
    IF r.leg[i + 1].kind = "CMSCoupon"
    THEN [leg |-> [r.leg EXCEPT ![i + 1] = setSwaptionVolatility(@, vol)],
          error |-> NoError]
    ELSE [leg |-> r.leg,
          error |-> "unexpected error when casting to CMSCoupon"]

RECURSIVE setSwaptionVolatilitiesFrom(_, _, _)
setSwaptionVolatilitiesFrom(r, vol, i) ==
    IF r.error = NoError /\ i < Len(r.leg)
    THEN setSwaptionVolatilitiesFrom(setSwaptionVolatilityAt(r, vol, i),
                                     vol, i + 1)
    ELSE r

\* setSwaptionVolatilities starting at the second coupon
setSwaptionVolatilitiesFromOne(leg, vol) ==
    setSwaptionVolatilitiesFrom([leg |-> leg, error |-> NoError], vol, 1)

setSwaptionVolatilities(leg, vol) ==
    setSwaptionVolatilitiesFrom([leg |-> leg, error |-> NoError], vol, 0)

\* ------------------------------------------------------- CMSCouponVector
CMSFirstPeriod(a) ==
    LET start == date(a.schedule, 0)
        end == date(a.schedule, 1)
        paymentDate == adjust(end, a.paymentAdjustment)
    IN  IF isRegular(a.schedule, 1)
        THEN CMSLocals(push_back(<<>>,
            CMSCoupon(get(a.nominals, 0, NullReal), paymentDate, a.index,
                start, end, a.settlementDays, a.dayCounter, a.pricer,
                get(a.gearings, 0, 1),
                get(a.spreads, 0, 0),
                get(a.caps, 0, NullReal),
                get(a.floors, 0, NullReal),
                get(a.meanReversions, 0, NullReal),
                start, end)),
            start, end, paymentDate)
        ELSE LET reference == adjust(end - tenor(a.schedule),
                                     a.paymentAdjustment)
             IN  CMSLocals(push_back(<<>>,
            CMSCoupon(get(a.nominals, 0, NullReal), paymentDate, a.index,
                start, end, a.settlementDays, a.dayCounter, a.pricer,
                get(a.gearings, 0, 1),
                get(a.spreads, 0, 0),
                get(a.caps, 0, NullReal),
                get(a.floors, 0, NullReal),
                get(a.meanReversions, 0, NullReal),
                reference, end)),
            start, end, paymentDate)

\* CMSRegularPeriod broadcasting with the loop counter i instead of i-1
CMSRegularPeriodIndexI(a, l, i) ==
    LET start == l.end
        end == date(a.schedule, i)
        paymentDate == adjust(end, a.paymentAdjustment)
    IN  CMSLocals(push_back(l.leg,
            CMSCoupon(get(a.nominals, i, NullReal), paymentDate, a.index,
                start, end, a.settlementDays, a.dayCounter, a.pricer,
                get(a.gearings, i, 1),
                get(a.spreads, i, 0),
                get(a.caps, i, NullReal),
                get(a.floors, i, NullReal),
                get(a.meanReversions, i, NullReal),
                start, end)),
            start, end, paymentDate)

\* CMSRegularPeriod keeping the payment date of the period before
CMSRegularPeriodStalePayment(a, l, i) ==
    LET start == l.end
        end == date(a.schedule, i)
        paymentDate == l.paymentDate
    IN  CMSLocals(push_back(l.leg,
            CMSCoupon(get(a.nominals, i - 1, NullReal), paymentDate, a.index,
                start, end, a.settlementDays, a.dayCounter, a.pricer,
                get(a.gearings, i - 1, 1),
                get(a.spreads, i - 1, 0),
                get(a.caps, i - 1, NullReal),
                get(a.floors, i - 1, NullReal),
                get(a.meanReversions, i - 1, NullReal),
                start, end)),
            start, end, paymentDate)

\* one iteration of the loop over the regular periods
CMSRegularPeriod(a, l, i) ==
    LET start == l.end
        end == date(a.schedule, i)
        paymentDate == adjust(end, a.paymentAdjustment)
    IN  CMSLocals(push_back(l.leg,
            CMSCoupon(get(a.nominals, i - 1, NullReal), paymentDate, a.index,
                start, end, a.settlementDays, a.dayCounter, a.pricer,
                get(a.gearings, i - 1, 1),
                get(a.spreads, i - 1, 0),
                get(a.caps, i - 1, NullReal),
                get(a.floors, i - 1, NullReal),
                get(a.meanReversions, i - 1, NullReal),
                start, end)),
            start, end, paymentDate)

RECURSIVE CMSRegularPeriods(_, _, _)
CMSRegularPeriods(a, l, i) ==
    IF i < size(a.schedule) - 1
    THEN CMSRegularPeriods(a, CMSRegularPeriod(a, l, i), i + 1)
    ELSE l

CMSLastPeriod(a, l) ==
    IF hasLastPeriod(a.schedule)
    THEN LET start == l.end
             end == date(a.schedule, a.N - 1)
             paymentDate == adjust(end, a.paymentAdjustment)
         IN  IF isRegular(a.schedule, a.N - 1)
             THEN CMSLocals(push_back(l.leg,
            CMSCoupon(get(a.nominals, a.N - 2, NullReal), paymentDate, a.index,
                start, end, a.settlementDays, a.dayCounter, a.pricer,
                get(a.gearings, a.N - 2, 1),
                get(a.spreads, a.N - 2, 0),
                get(a.caps, a.N - 2, NullReal),
                get(a.floors, a.N - 2, NullReal),
                get(a.meanReversions, a.N - 2, NullReal),
                start, end)),
            start, end, paymentDate)
             ELSE LET reference == adjust(start + tenor(a.schedule),
                                          a.paymentAdjustment)
                  IN  CMSLocals(push_back(l.leg,
            CMSCoupon(get(a.nominals, a.N - 2, NullReal), paymentDate, a.index,
                start, end, a.settlementDays, a.dayCounter, a.pricer,
                get(a.gearings, a.N - 2, 1),
                get(a.spreads, a.N - 2, 0),
                get(a.caps, a.N - 2, NullReal),
                get(a.floors, a.N - 2, NullReal),
                get(a.meanReversions, a.N - 2, NullReal),
                start, reference)),
            start, end, paymentDate)
    ELSE l

CMSCouponVector(schedule, paymentAdjustment, nominals, index, settlementDays, dayCounter, gearings, spreads, caps, floors, meanReversions, pricer, vol) ==
    LET N == size(schedule)
        a == [schedule |-> schedule, paymentAdjustment |-> paymentAdjustment,
              nominals |-> nominals, index |-> index,
              settlementDays |-> settlementDays, dayCounter |-> dayCounter,
              gearings |-> gearings, spreads |-> spreads, caps |-> caps,
              floors |-> floors, meanReversions |-> meanReversions,
              pricer |-> pricer, N |-> N]
    IN  IF empty(nominals) THEN Thrown("no nominal given", 0)
        ELSE LET built == CMSLastPeriod(a,
                              CMSRegularPeriods(a, CMSFirstPeriod(a), 2)).leg
                 attached == setSwaptionVolatilities(built, vol)
             IN  IF attached.error # NoError
                 THEN Thrown(attached.error, Len(built))
                 ELSE Returned(attached.leg)

\* --------------------------------------------------- CMSZeroCouponVector
CMSZeroFirstPeriod(a) ==
    LET start == date(a.schedule, 0)
        end == date(a.schedule, 1)
        paymentDate == a.paymentDate
    IN  IF isRegular(a.schedule, 1)
        THEN CMSLocals(push_back(<<>>,
            CMSCoupon(get(a.nominals, 0, NullReal), paymentDate, a.index,
                start, end, a.fixingDays, a.dayCounter, a.pricer,
                get(a.gearings, 0, 1),
                get(a.spreads, 0, 0),
                get(a.caps, 0, NullReal),
                get(a.floors, 0, NullReal),
                get(a.meanReversions, 0, NullReal),
                start, end)),
            start, end, paymentDate)
        ELSE LET reference == adjust(end - tenor(a.schedule),
                                     a.paymentAdjustment)
             IN  CMSLocals(push_back(<<>>,
            CMSCoupon(get(a.nominals, 0, NullReal), paymentDate, a.index,
                start, end, a.fixingDays, a.dayCounter, a.pricer,
                get(a.gearings, 0, 1),
                get(a.spreads, 0, 0),
                get(a.caps, 0, NullReal),
                get(a.floors, 0, NullReal),
                get(a.meanReversions, 0, NullReal),
                reference, end)),
            start, end, paymentDate)

\* one iteration of the loop over the regular periods
CMSZeroRegularPeriod(a, l, i) ==
    LET start == l.end
        end == date(a.schedule, i)
        paymentDate == l.paymentDate
    IN  CMSLocals(push_back(l.leg,
            CMSCoupon(get(a.nominals, i - 1, NullReal), paymentDate, a.index,
                start, end, a.fixingDays, a.dayCounter, a.pricer,
                get(a.gearings, i - 1, 1),
                get(a.spreads, i - 1, 0),
                get(a.caps, i - 1, NullReal),
                get(a.floors, i - 1, NullReal),
                get(a.meanReversions, i - 1, NullReal),
                start, end)),
            start, end, paymentDate)

RECURSIVE CMSZeroRegularPeriods(_, _, _)
CMSZeroRegularPeriods(a, l, i) ==
    IF i < size(a.schedule) - 1
    THEN CMSZeroRegularPeriods(a, CMSZeroRegularPeriod(a, l, i), i + 1)
    ELSE l

\* CMSZeroLastPeriod adding the tenor to the end of the period
CMSZeroLastPeriodFromEnd(a, l) ==
    IF hasLastPeriod(a.schedule)
    THEN LET start == l.end
             end == date(a.schedule, a.N - 1)
             paymentDate == l.paymentDate
         IN  IF isRegular(a.schedule, a.N - 1)
             THEN CMSLocals(push_back(l.leg,
            CMSCoupon(get(a.nominals, a.N - 2, NullReal), paymentDate, a.index,
                start, end, a.fixingDays, a.dayCounter, a.pricer,
                get(a.gearings, a.N - 2, 1),
                get(a.spreads, a.N - 2, 0),
                get(a.caps, a.N - 2, NullReal),
                get(a.floors, a.N - 2, NullReal),
                get(a.meanReversions, a.N - 2, NullReal),
                start, end)),
            start, end, paymentDate)
             ELSE LET reference == adjust(end + tenor(a.schedule),
                                          a.paymentAdjustment)
                  IN  CMSLocals(push_back(l.leg,
            CMSCoupon(get(a.nominals, a.N - 2, NullReal), paymentDate, a.index,
                start, end, a.fixingDays, a.dayCounter, a.pricer,
                get(a.gearings, a.N - 2, 1),
                get(a.spreads, a.N - 2, 0),
                get(a.caps, a.N - 2, NullReal),
                get(a.floors, a.N - 2, NullReal),
                get(a.meanReversions, a.N - 2, NullReal),
                start, reference)),
            start, end, paymentDate)
    ELSE l

CMSZeroLastPeriod(a, l) ==
    IF hasLastPeriod(a.schedule)
    THEN LET start == l.end
             end == date(a.schedule, a.N - 1)
             paymentDate == l.paymentDate
         IN  IF isRegular(a.schedule, a.N - 1)
             THEN CMSLocals(push_back(l.leg,
            CMSCoupon(get(a.nominals, a.N - 2, NullReal), paymentDate, a.index,
                start, end, a.fixingDays, a.dayCounter, a.pricer,
                get(a.gearings, a.N - 2, 1),
                get(a.spreads, a.N - 2, 0),
                get(a.caps, a.N - 2, NullReal),
                get(a.floors, a.N - 2, NullReal),
                get(a.meanReversions, a.N - 2, NullReal),
                start, end)),
            start, end, paymentDate)
             ELSE LET reference == adjust(start + tenor(a.schedule),
                                          a.paymentAdjustment)
                  IN  CMSLocals(push_back(l.leg,
            CMSCoupon(get(a.nominals, a.N - 2, NullReal), paymentDate, a.index,
                start, end, a.fixingDays, a.dayCounter, a.pricer,
                get(a.gearings, a.N - 2, 1),
                get(a.spreads, a.N - 2, 0),
                get(a.caps, a.N - 2, NullReal),
                get(a.floors, a.N - 2, NullReal),
                get(a.meanReversions, a.N - 2, NullReal),
                start, reference)),
            start, end, paymentDate)
    ELSE l

CMSZeroCouponVector(schedule, paymentAdjustment, nominals, index, fixingDays, dayCounter, gearings, spreads, caps, floors, meanReversions, pricer, vol) ==
    LET N == size(schedule)
        a == [schedule |-> schedule, paymentAdjustment |-> paymentAdjustment,
              nominals |-> nominals, index |-> index,
              fixingDays |-> fixingDays, dayCounter |-> dayCounter,
              gearings |-> gearings, spreads |-> spreads, caps |-> caps,
              floors |-> floors, meanReversions |-> meanReversions,
              pricer |-> pricer, N |-> N,
              paymentDate |-> adjust(date(schedule, N - 1),
                                     paymentAdjustment)]
    IN  IF empty(nominals) THEN Thrown("no nominal given", 0)
        ELSE LET built == CMSZeroLastPeriod(a,
                              CMSZeroRegularPeriods(a, CMSZeroFirstPeriod(a), 2)).leg
                 attached == setSwaptionVolatilities(built, vol)
             IN  IF attached.error # NoError
                 THEN Thrown(attached.error, Len(built))
                 ELSE Returned(attached.leg)

\* CMSInArrearsFirstPeriod subtracting the length of the stub, not the tenor
CMSInArrearsFirstPeriodStubLength(a) ==
    LET start == date(a.schedule, 0)
        end == date(a.schedule, 1)
        paymentDate == adjust(end, a.paymentAdjustment)
    IN  IF isRegular(a.schedule, 1)
        THEN CMSLocals(push_back(<<>>,
            CMSCouponInArrears(get(a.nominals, 0, NullReal), paymentDate, a.index,
                start, end, a.fixingDays, a.dayCounter, a.pricer,
                get(a.gearings, 0, 1),
                get(a.spreads, 0, 0),
                get(a.caps, 0, NullReal),
                get(a.floors, 0, NullReal),
                get(a.meanReversions, 0, NullReal),
                start, end, TRUE)),
            start, end, paymentDate)
        ELSE LET reference == adjust(end - (end - start),
                                     a.paymentAdjustment)
             IN  CMSLocals(push_back(<<>>,
            CMSCouponInArrears(get(a.nominals, 0, NullReal), paymentDate, a.index,
                start, end, a.fixingDays, a.dayCounter, a.pricer,
                get(a.gearings, 0, 1),
                get(a.spreads, 0, 0),
                get(a.caps, 0, NullReal),
                get(a.floors, 0, NullReal),
                get(a.meanReversions, 0, NullReal),
                reference, end, TRUE)),
            start, end, paymentDate)

\* ---------------------------------------------- CMSInArrearsCouponVector
CMSInArrearsFirstPeriod(a) ==
    LET start == date(a.schedule, 0)
        end == date(a.schedule, 1)
        paymentDate == adjust(end, a.paymentAdjustment)
    IN  IF isRegular(a.schedule, 1)
        THEN CMSLocals(push_back(<<>>,
            CMSCouponInArrears(get(a.nominals, 0, NullReal), paymentDate, a.index,
                start, end, a.fixingDays, a.dayCounter, a.pricer,
                get(a.gearings, 0, 1),
                get(a.spreads, 0, 0),
                get(a.caps, 0, NullReal),
                get(a.floors, 0, NullReal),
                get(a.meanReversions, 0, NullReal),
                start, end, TRUE)),
            start, end, paymentDate)
        ELSE LET reference == adjust(end - tenor(a.schedule),
                                     a.paymentAdjustment)
             IN  CMSLocals(push_back(<<>>,
            CMSCouponInArrears(get(a.nominals, 0, NullReal), paymentDate, a.index,
                start, end, a.fixingDays, a.dayCounter, a.pricer,
                get(a.gearings, 0, 1),
                get(a.spreads, 0, 0),
                get(a.caps, 0, NullReal),
                get(a.floors, 0, NullReal),
                get(a.meanReversions, 0, NullReal),
                reference, end, TRUE)),
            start, end, paymentDate)

\* one iteration of the loop over the regular periods
CMSInArrearsRegularPeriod(a, l, i) ==
    LET start == l.end
        end == date(a.schedule, i)
        paymentDate == adjust(end, a.paymentAdjustment)
    IN  CMSLocals(push_back(l.leg,
            CMSCouponInArrears(get(a.nominals, i - 1, NullReal), paymentDate, a.index,
                start, end, a.fixingDays, a.dayCounter, a.pricer,
                get(a.gearings, i - 1, 1),
                get(a.spreads, i - 1, 0),
                get(a.caps, i - 1, NullReal),
                get(a.floors, i - 1, NullReal),
                get(a.meanReversions, i - 1, NullReal),
                start, end, TRUE)),
            start, end, paymentDate)

RECURSIVE CMSInArrearsRegularPeriods(_, _, _)
CMSInArrearsRegularPeriods(a, l, i) ==
    IF i < size(a.schedule) - 1
    THEN CMSInArrearsRegularPeriods(a, CMSInArrearsRegularPeriod(a, l, i), i + 1)
    ELSE l

\* CMSInArrearsLastPeriod leaving the flag out on an irregular last period
CMSInArrearsLastPeriodNoFlag(a, l) ==
    IF hasLastPeriod(a.schedule)
    THEN LET start == l.end
             end == date(a.schedule, a.N - 1)
             paymentDate == adjust(end, a.paymentAdjustment)
         IN  IF isRegular(a.schedule, a.N - 1)
             THEN CMSLocals(push_back(l.leg,
            CMSCouponInArrears(get(a.nominals, a.N - 2, NullReal), paymentDate, a.index,
                start, end, a.fixingDays, a.dayCounter, a.pricer,
                get(a.gearings, a.N - 2, 1),
                get(a.spreads, a.N - 2, 0),
                get(a.caps, a.N - 2, NullReal),
                get(a.floors, a.N - 2, NullReal),
                get(a.meanReversions, a.N - 2, NullReal),
                start, end, TRUE)),
            start, end, paymentDate)
             ELSE LET reference == adjust(start + tenor(a.schedule),
                                          a.paymentAdjustment)
                  IN  CMSLocals(push_back(l.leg,
            CMSCoupon(get(a.nominals, a.N - 2, NullReal), paymentDate, a.index,
                start, end, a.fixingDays, a.dayCounter, a.pricer,
                get(a.gearings, a.N - 2, 1),
                get(a.spreads, a.N - 2, 0),
                get(a.caps, a.N - 2, NullReal),
                get(a.floors, a.N - 2, NullReal),
                get(a.meanReversions, a.N - 2, NullReal),
                start, reference)),
            start, end, paymentDate)
    ELSE l

CMSInArrearsLastPeriod(a, l) ==
    IF hasLastPeriod(a.schedule)
    THEN LET start == l.end
             end == date(a.schedule, a.N - 1)
             paymentDate == adjust(end, a.paymentAdjustment)
         IN  IF isRegular(a.schedule, a.N - 1)
             THEN CMSLocals(push_back(l.leg,
            CMSCouponInArrears(get(a.nominals, a.N - 2, NullReal), paymentDate, a.index,
                start, end, a.fixingDays, a.dayCounter, a.pricer,
                get(a.gearings, a.N - 2, 1),
                get(a.spreads, a.N - 2, 0),
                get(a.caps, a.N - 2, NullReal),
                get(a.floors, a.N - 2, NullReal),
                get(a.meanReversions, a.N - 2, NullReal),
                start, end, TRUE)),
            start, end, paymentDate)
             ELSE LET reference == adjust(start + tenor(a.schedule),
                                          a.paymentAdjustment)
                  IN  CMSLocals(push_back(l.leg,
            CMSCouponInArrears(get(a.nominals, a.N - 2, NullReal), paymentDate, a.index,
                start, end, a.fixingDays, a.dayCounter, a.pricer,
                get(a.gearings, a.N - 2, 1),
                get(a.spreads, a.N - 2, 0),
                get(a.caps, a.N - 2, NullReal),
                get(a.floors, a.N - 2, NullReal),
                get(a.meanReversions, a.N - 2, NullReal),
                start, reference, TRUE)),
            start, end, paymentDate)
    ELSE l

CMSInArrearsCouponVector(schedule, paymentAdjustment, nominals, index, fixingDays, dayCounter, gearings, spreads, caps, floors, meanReversions, pricer, vol) ==
    LET N == size(schedule)
        a == [schedule |-> schedule, paymentAdjustment |-> paymentAdjustment,
              nominals |-> nominals, index |-> index,
              fixingDays |-> fixingDays, dayCounter |-> dayCounter,
              gearings |-> gearings, spreads |-> spreads, caps |-> caps,
              floors |-> floors, meanReversions |-> meanReversions,
              pricer |-> pricer, N |-> N]
    IN  IF empty(nominals) THEN Thrown("no nominal given", 0)
        ELSE LET built == CMSInArrearsLastPeriod(a,
                              CMSInArrearsRegularPeriods(a, CMSInArrearsFirstPeriod(a), 2)).leg
                 attached == setSwaptionVolatilities(built, vol)
             IN  IF attached.error # NoError
                 THEN Thrown(attached.error, Len(built))
                 ELSE Returned(attached.leg)


\* ================================================================ inputs
\* the schedules: N dates from Origin on, a period of StubLen days where a
\* first or last period is marked irregular and of Tenor days elsewhere
Gap(regular, N, k) ==
    IF (k = 1 \/ k = N - 1) /\ ~regular[k] THEN StubLen ELSE Tenor

RECURSIVE Dates(_, _, _)
Dates(regular, N, k) ==
    IF k = 0 THEN <<Origin>>
    ELSE LET d == Dates(regular, N, k - 1)
         IN  Append(d, d[k] + Gap(regular, N, k))

Schedules ==
    { [dates |-> Dates(regular, N, N - 1), regular |-> regular,
       tenor |-> Tenor, businessDayConvention |-> c] :
        <<N, regular, c>> \in
            UNION { {N} \X [1..(N - 1) -> BOOLEAN] \X Conventions :
                    N \in 2..MaxN } }

\* the vectors a caller passes: their elements differ from one another and
\* from the defaults
Nominals(L) == [k \in 1..L |-> 1000 * k]
CouponRates(L) == [k \in 1..L |-> 250 + 50 * k]
Gearings(L) == [k \in 1..L |-> 1 + k]
Spreads(L) == [k \in 1..L |-> 10 * k]
Caps(L) == [k \in 1..L |-> 500 + 10 * k]
Floors(L) == [k \in 1..L |-> 100 + 10 * k]
MeanReversions(L) == [k \in 1..L |-> 20 + k]
OptLens == {0, OptLen}
GetVectors == UNION { [1..L -> {1000, 2000}] : L \in 0..MaxLen }
GetDefaults == {NullReal, 1}

\* ========================================================= state machine
VARIABLES pc, fn, args, leg, error, built, value
vars == <<pc, fn, args, leg, error, built, value>>

NoArgs ==
    [schedule |-> <<>>, paymentAdjustment |-> "Unadjusted",
     nominals |-> <<>>, couponRates |-> <<>>, dayCount |-> EmptyDayCounter,
     firstPeriodDayCount |-> EmptyDayCounter, gearings |-> <<>>,
     spreads |-> <<>>, caps |-> <<>>, floors |-> <<>>,
     meanReversions |-> <<>>, vol |-> EmptyHandle, v |-> <<>>, i |-> 0,
     defaultValue |-> NullReal]

Init ==
    /\ pc = "idle"
    /\ fn = "none"
    /\ args = NoArgs
    /\ leg = <<>>
    /\ error = NoError
    /\ built = 0
    /\ value = NullReal

\* the call ends: the caller holds the leg returned, or the error thrown
Finish(r) ==
    /\ pc' = IF r.error = NoError THEN "returned" ELSE "failed"
    /\ leg' = r.leg
    /\ error' = r.error
    /\ built' = r.built
    /\ value' = NullReal

CallFixedRateCouponVector ==
    /\ pc = "idle"
    /\ \E schedule \in Schedules, paymentAdjustment \in Conventions,
          nl \in 0..MaxLen, rl \in 0..MaxLen, dayCount \in DayCounters,
          firstPeriodDayCount \in DayCounters \cup {EmptyDayCounter} :
          /\ fn' = "FixedRateCouponVector"
          /\ args' = [NoArgs EXCEPT
                        !.schedule = schedule,
                        !.paymentAdjustment = paymentAdjustment,
                        !.nominals = Nominals(nl),
                        !.couponRates = CouponRates(rl),
                        !.dayCount = dayCount,
                        !.firstPeriodDayCount = firstPeriodDayCount]
          /\ Finish(FixedRateCouponVector(schedule, paymentAdjustment,
                        Nominals(nl), CouponRates(rl), dayCount,
                        firstPeriodDayCount))

\* the arguments of a call of one of the three CMS builders
CMSArgs(schedule, paymentAdjustment, nl, dayCounter, gl, sl, cl, fl, ml, vol) ==
    [NoArgs EXCEPT
        !.schedule = schedule, !.paymentAdjustment = paymentAdjustment,
        !.nominals = Nominals(nl), !.dayCount = dayCounter,
        !.gearings = Gearings(gl), !.spreads = Spreads(sl),
        !.caps = Caps(cl), !.floors = Floors(fl),
        !.meanReversions = MeanReversions(ml), !.vol = vol]

CallCMSCouponVector ==
    /\ pc = "idle"
    /\ \E schedule \in Schedules, paymentAdjustment \in Conventions,
          nl \in 0..MaxLen, gl \in OptLens, sl \in OptLens, cl \in OptLens,
          fl \in OptLens, ml \in OptLens, vol \in VolHandles :
          /\ fn' = "CMSCouponVector"
          /\ args' = CMSArgs(schedule, paymentAdjustment, nl, "Actual360",
                             gl, sl, cl, fl, ml, vol)
          /\ Finish(CMSCouponVector(schedule, paymentAdjustment,
                        Nominals(nl), "swapIndex", 2, "Actual360",
                        Gearings(gl), Spreads(sl), Caps(cl), Floors(fl),
                        MeanReversions(ml), "pricer", vol))

CallCMSZeroCouponVector ==
    /\ pc = "idle"
    /\ \E schedule \in Schedules, paymentAdjustment \in Conventions,
          nl \in 0..MaxLen, gl \in OptLens, sl \in OptLens, cl \in OptLens,
          fl \in OptLens, ml \in OptLens, vol \in VolHandles :
          /\ fn' = "CMSZeroCouponVector"
          /\ args' = CMSArgs(schedule, paymentAdjustment, nl, "Actual360",
                             gl, sl, cl, fl, ml, vol)
          /\ Finish(CMSZeroCouponVector(schedule, paymentAdjustment,
                        Nominals(nl), "swapIndex", 2, "Actual360",
                        Gearings(gl), Spreads(sl), Caps(cl), Floors(fl),
                        MeanReversions(ml), "pricer", vol))

CallCMSInArrearsCouponVector ==
    /\ pc = "idle"
    /\ \E schedule \in Schedules, paymentAdjustment \in Conventions,
          nl \in 0..MaxLen, gl \in OptLens, sl \in OptLens, cl \in OptLens,
          fl \in OptLens, ml \in OptLens, vol \in VolHandles :
          /\ fn' = "CMSInArrearsCouponVector"
          /\ args' = CMSArgs(schedule, paymentAdjustment, nl, "Actual360",
                             gl, sl, cl, fl, ml, vol)
          /\ Finish(CMSInArrearsCouponVector(schedule, paymentAdjustment,
                        Nominals(nl), "swapIndex", 2, "Actual360",
                        Gearings(gl), Spreads(sl), Caps(cl), Floors(fl),
                        MeanReversions(ml), "pricer", vol))

\* the caller drops the result and is ready for another call
Done ==
    /\ pc \in {"returned", "failed"}
    /\ pc' = "idle"
    /\ fn' = "none"
    /\ args' = NoArgs
    /\ leg' = <<>>
    /\ error' = NoError
    /\ built' = 0
    /\ value' = NullReal

Next ==
    \/ CallFixedRateCouponVector
    \/ CallCMSCouponVector
    \/ CallCMSZeroCouponVector
    \/ CallCMSInArrearsCouponVector
    \/ Done

Spec == Init /\ [][Next]_vars

\* ------------------------------------------------- the broadcaster alone
\* get() applied to every vector, index and default value of the bounds
InitGet ==
    /\ pc = "idle"
    /\ fn = "get"
    /\ \E v \in GetVectors, i \in 0..MaxIndex, d \in GetDefaults :
          args = [NoArgs EXCEPT !.v = v, !.i = i, !.defaultValue = d]
    /\ leg = <<>>
    /\ error = NoError
    /\ built = 0
    /\ value = NullReal

CallGet ==
    /\ pc = "idle"
    /\ fn = "get"
    /\ LET r == get(args.v, args.i, args.defaultValue)
       IN  IF r = UndefinedRead
           THEN /\ error' = "read outside the vector"
                /\ value' \in {1000, 2000, UndefinedRead}
           ELSE /\ error' = NoError
                /\ value' = r
    /\ pc' = "returned"
    /\ UNCHANGED <<fn, args, leg, built>>

NextGet == CallGet

SpecGet == InitGet /\ [][NextGet]_vars


\* ================================================================ claims
Builders == {"FixedRateCouponVector", "CMSCouponVector",
             "CMSZeroCouponVector", "CMSInArrearsCouponVector"}
CMSBuilders == Builders \ {"FixedRateCouponVector"}
Called == fn \in Builders /\ pc # "idle"
ReturnedLeg == fn \in Builders /\ pc = "returned"
NDates == size(args.schedule)

\* the broadcasting law of the design: empty gives the default, a short
\* array holds its last value, otherwise the element of the period
Resolve(array, p, default) ==
    IF Len(array) = 0 THEN default
    ELSE IF p < Len(array) THEN array[p + 1]
    ELSE array[Len(array)]

\* the convention each builder adjusts a reference date with
ReferenceConvention ==
    IF fn = "FixedRateCouponVector"
    THEN args.schedule.businessDayConvention
    ELSE args.paymentAdjustment

\* the inputs a builder accepts
RequiredArraysGiven ==
    /\ Len(args.nominals) > 0
    /\ fn = "FixedRateCouponVector" => Len(args.couponRates) > 0
FirstDayCountRejected ==
    /\ fn = "FixedRateCouponVector"
    /\ args.schedule.regular[1]
    /\ args.firstPeriodDayCount # EmptyDayCounter
    /\ args.firstPeriodDayCount # args.dayCount

\* C1: every leg a builder returns has exactly N-1 coupons, all of them
\* constructed by the call, and a builder returns a leg whenever its
\* required arrays are non-empty (and, for the fixed-rate builder, the
\* first-period day count is not rejected).
C1_LegLength ==
    Called =>
        /\ pc = "returned" => Len(leg) = NDates - 1 /\ built = NDates - 1
        /\ RequiredArraysGiven /\ ~FirstDayCountRejected => pc = "returned"

C1_Witness ==
    /\ ReturnedLeg
    /\ fn = "CMSCouponVector"
    /\ NDates = MaxN
    /\ Len(leg) = MaxN - 1

\* C2: get(v, i, default) ends for every vector, index and default value,
\* reads no element outside the vector, and returns the default when the
\* vector is empty, v[i] when i < L and v[L-1] otherwise.
C2_GetLaw ==
    fn = "get" =>
        /\ pc = "idle" => ENABLED CallGet
        /\ pc = "returned" =>
            /\ error = NoError
            /\ value = Resolve(args.v, args.i, args.defaultValue)

C2_Witness ==
    /\ fn = "get"
    /\ pc = "returned"
    /\ Len(args.v) = 2
    /\ args.v[1] # args.v[2]
    /\ args.i > Len(args.v)
    /\ value = args.v[2]

\* C3: coupon p of a returned leg carries the nominal and the rate-related
\* parameters resolved at the zero-based period index p: the fixed-rate
\* builder resolves couponRates, the CMS builders resolve gearings (default
\* 1), spreads (default 0), caps, floors and mean reversions (default unset).
C3_BroadcastAtPeriodIndex ==
    ReturnedLeg =>
        \A p \in 0..(NDates - 2) :
            LET c == leg[p + 1]
            IN  /\ c.nominal = Resolve(args.nominals, p, NullReal)
                /\ fn = "FixedRateCouponVector" =>
                       c.rate = Resolve(args.couponRates, p, NullReal)
                /\ fn \in CMSBuilders =>
                    /\ c.gearing = Resolve(args.gearings, p, 1)
                    /\ c.spread = Resolve(args.spreads, p, 0)
                    /\ c.cap = Resolve(args.caps, p, NullReal)
                    /\ c.floor = Resolve(args.floors, p, NullReal)
                    /\ c.meanReversion =
                           Resolve(args.meanReversions, p, NullReal)

\* five dates, nominals = [1000], couponRates = [0.03, 0.035]
C3_Witness ==
    /\ ReturnedLeg
    /\ fn = "FixedRateCouponVector"
    /\ NDates = 5
    /\ args.nominals = <<1000>>
    /\ args.couponRates = <<300, 350>>
    /\ [p \in 1..4 |-> leg[p].rate] = <<300, 350, 350, 350>>
    /\ \A p \in 1..4 : leg[p].nominal = 1000

\* C4: a call with empty nominals (any builder) or empty couponRates (the
\* fixed-rate builder) ends with a configuration error, with no coupon
\* constructed and no leg returned.
C4_EmptyArrayFailsFirst ==
    Called /\ ~RequiredArraysGiven =>
        /\ pc = "failed"
        /\ error \in {"coupon rates not specified", "nominals not specified",
                      "no nominal given"}
        /\ built = 0
        /\ leg = <<>>

C4_Witness ==
    /\ fn = "CMSZeroCouponVector"
    /\ pc = "failed"
    /\ Len(args.nominals) = 0
    /\ error = "no nominal given"
    /\ built = 0

\* C5 as stated: the fixed-rate builder fails, with no coupon constructed,
\* whenever the first period is regular and a first-period day count is
\* given, whatever its value.
C5_AnyOverrideFails ==
    /\ fn = "FixedRateCouponVector"
    /\ pc # "idle"
    /\ args.schedule.regular[1]
    /\ args.firstPeriodDayCount # EmptyDayCounter
    => pc = "failed" /\ built = 0

\* C5 amended: with the first period regular, the fixed-rate builder fails,
\* with no coupon constructed, when a first-period day count is given that
\* differs from the leg's day count; a first-period day count equal to the
\* leg's day count is accepted and the leg is returned.
C5_DifferentOverrideFails ==
    /\ fn = "FixedRateCouponVector"
    /\ pc # "idle"
    /\ args.schedule.regular[1]
    /\ args.firstPeriodDayCount # EmptyDayCounter
    => /\ args.firstPeriodDayCount # args.dayCount =>
            /\ pc = "failed"
            /\ built = 0
            /\ leg = <<>>
            /\ RequiredArraysGiven =>
                error = "regular first coupon does not allow a first-period day count"
       /\ args.firstPeriodDayCount = args.dayCount /\ RequiredArraysGiven =>
            /\ pc = "returned"
            /\ leg[1].dayCounter = args.dayCount

C5_Witness ==
    /\ fn = "FixedRateCouponVector"
    /\ pc = "failed"
    /\ args.schedule.regular[1]
    /\ args.firstPeriodDayCount \in DayCounters
    /\ args.firstPeriodDayCount # args.dayCount
    /\ error = "regular first coupon does not allow a first-period day count"
    /\ built = 0

\* C6: coupon 0 of a returned leg accrues from date[0] to date[1]; when the
\* schedule marks period 0 irregular its reference period ends at the
\* accrual end and starts at the accrual end less the schedule's tenor,
\* adjusted on the calendar; when period 0 is regular its reference period
\* is its accrual period.  This holds for N = 2 as well.
C6_FirstPeriodReference ==
    ReturnedLeg =>
        LET c == leg[1]
        IN  /\ c.accrualStartDate = date(args.schedule, 0)
            /\ c.accrualEndDate = date(args.schedule, 1)
            /\ c.refPeriodEnd = c.accrualEndDate
            /\ c.refPeriodStart =
                IF isRegular(args.schedule, 1)
                THEN c.accrualStartDate
                ELSE adjust(c.accrualEndDate - tenor(args.schedule),
                            ReferenceConvention)

C6_Witness ==
    /\ ReturnedLeg
    /\ NDates = 2
    /\ ~isRegular(args.schedule, 1)
    /\ leg[1].accrualEndDate - leg[1].accrualStartDate # tenor(args.schedule)
    /\ leg[1].refPeriodStart # leg[1].accrualStartDate
    /\ leg[1].refPeriodStart # leg[1].accrualEndDate - tenor(args.schedule)

\* the last coupon of a returned leg has the reference period of an
\* irregular last period: from its accrual start to the accrual start plus
\* the tenor, adjusted; or its accrual period when the period is regular
LastPeriodReference ==
    LET c == leg[NDates - 1]
    IN  /\ c.refPeriodStart = c.accrualStartDate
        /\ c.refPeriodEnd =
            IF isRegular(args.schedule, NDates - 1)
            THEN c.accrualEndDate
            ELSE adjust(c.accrualStartDate + tenor(args.schedule),
                        ReferenceConvention)

\* C7 as stated: for every N >= 2 the last coupon has the reference period
\* of the last period.
C7_LastPeriodReferenceFromTwo == ReturnedLeg => LastPeriodReference

\* C7 amended: for N >= 3 the last coupon has the reference period of the
\* last period; for N = 2 the only coupon is built as a first period, so an
\* irregular one has its reference period ending at its accrual end and
\* starting at the accrual end less the tenor, adjusted.
C7_LastPeriodReferenceFromThree ==
    ReturnedLeg =>
        /\ NDates >= 3 => LastPeriodReference
        /\ NDates = 2 /\ ~isRegular(args.schedule, 1) =>
            /\ leg[1].refPeriodEnd = leg[1].accrualEndDate
            /\ leg[1].refPeriodStart =
                   adjust(leg[1].accrualEndDate - tenor(args.schedule),
                          ReferenceConvention)

C7_Witness ==
    /\ ReturnedLeg
    /\ NDates >= 3
    /\ ~isRegular(args.schedule, NDates - 1)
    /\ leg[NDates - 1].refPeriodStart = leg[NDates - 1].accrualStartDate
    /\ leg[NDates - 1].refPeriodEnd # leg[NDates - 1].accrualEndDate
    /\ leg[NDates - 1].refPeriodEnd #
           leg[NDates - 1].accrualStartDate + tenor(args.schedule)

\* C8: in a leg of the fixed-rate, CMS and CMS-in-arrears builders every
\* coupon is paid on its own accrual end adjusted by paymentAdjustment; in
\* a leg of the CMS-zero builder every coupon is paid on the last schedule
\* date adjusted by paymentAdjustment.
C8_PaymentDates ==
    ReturnedLeg =>
        \A p \in 0..(NDates - 2) :
            leg[p + 1].paymentDate =
                IF fn = "CMSZeroCouponVector"
                THEN adjust(date(args.schedule, NDates - 1),
                            args.paymentAdjustment)
                ELSE adjust(leg[p + 1].accrualEndDate,
                            args.paymentAdjustment)

C8_Witness ==
    /\ ReturnedLeg
    /\ fn = "CMSCouponVector"
    /\ NDates >= 4
    /\ leg[2].paymentDate # leg[1].paymentDate
    /\ leg[2].paymentDate # leg[2].accrualEndDate
    /\ leg[2].paymentDate = adjust(date(args.schedule, 2),
                                   args.paymentAdjustment)

\* C9: every coupon of a leg of CMSInArrearsCouponVector has the in-arrears
\* flag set and every coupon of a leg of CMSCouponVector has it unset.
C9_ArrearsFlag ==
    ReturnedLeg =>
        /\ fn = "CMSInArrearsCouponVector" =>
               \A k \in 1..Len(leg) : leg[k].isInArrears = TRUE
        /\ fn = "CMSCouponVector" =>
               \A k \in 1..Len(leg) : leg[k].isInArrears = FALSE

C9_Witness ==
    /\ ReturnedLeg
    /\ fn = "CMSInArrearsCouponVector"
    /\ NDates >= 4
    /\ ~isRegular(args.schedule, 1)
    /\ ~isRegular(args.schedule, NDates - 1)
    /\ \A k \in 1..Len(leg) : leg[k].isInArrears = TRUE

\* C10: every element of a leg returned by a CMS builder is a CMS coupon
\* holding the volatility handle of the call, attached once all N-1 coupons
\* are built; the attachment pass raises its error at an element that is not
\* a CMS coupon, and a call that raises returns no leg.
C10_VolatilityAttached ==
    fn \in CMSBuilders /\ pc # "idle" =>
        /\ pc = "returned" =>
            /\ built = NDates - 1
            /\ \A k \in 1..Len(leg) :
                /\ leg[k].kind = "CMSCoupon"
                /\ leg[k].swaptionVol = args.vol
                /\ LET foreign == [leg EXCEPT ![k] =
                           FixedRateCoupon(@.nominal, @.paymentDate, 0,
                               @.dayCounter, @.accrualStartDate,
                               @.accrualEndDate, @.refPeriodStart,
                               @.refPeriodEnd)]
                   IN  setSwaptionVolatilities(foreign, args.vol).error
                           = "unexpected error when casting to CMSCoupon"
        /\ pc = "failed" => leg = <<>>

C10_Witness ==
    /\ fn = "CMSInArrearsCouponVector"
    /\ pc = "returned"
    /\ NDates = MaxN
    /\ args.vol = "volB"
    /\ \A k \in 1..(MaxN - 1) : leg[k].swaptionVol = "volB"


\* the period boundaries of a leg, coupon by coupon
Boundaries(l) ==
    [k \in 1..Len(l) |->
        <<l[k].accrualStartDate, l[k].accrualEndDate,
          l[k].refPeriodStart, l[k].refPeriodEnd>>]

\* the legs the three CMS builders return for the schedule, the payment
\* adjustment and the nominals of the call in progress
CMSLegsOfSameSchedule ==
    { CMSCouponVector(args.schedule, args.paymentAdjustment, args.nominals,
          "swapIndex", 2, args.dayCount, <<>>, <<>>, <<>>, <<>>, <<>>,
          "pricer", "volA").leg,
      CMSZeroCouponVector(args.schedule, args.paymentAdjustment,
          args.nominals, "swapIndex", 2, args.dayCount, <<>>, <<>>, <<>>,
          <<>>, <<>>, "pricer", "volA").leg,
      CMSInArrearsCouponVector(args.schedule, args.paymentAdjustment,
          args.nominals, "swapIndex", 2, args.dayCount, <<>>, <<>>, <<>>,
          <<>>, <<>>, "pricer", "volA").leg }

\* C11: for the same schedule and the same paymentAdjustment the leg of
\* the fixed-rate builder and the legs of the CMS builders have the same
\* accrual and reference dates in every period, irregular first and last
\* periods included, also when paymentAdjustment differs from the
\* schedule's business-day convention.
C11_SameBoundaries ==
    ReturnedLeg /\ fn = "FixedRateCouponVector" =>
        \A other \in CMSLegsOfSameSchedule :
            Boundaries(other) = Boundaries(leg)

\* C12: in a returned leg coupon p accrues from date[p] to date[p+1], so
\* each coupon starts where the one before ends, and every middle coupon
\* (1 <= p <= N-3) has its accrual period as reference period whatever the
\* schedule's regularity flag of that period.
C12_AccrualsTileSchedule ==
    ReturnedLeg =>
        /\ \A p \in 0..(NDates - 2) :
            /\ leg[p + 1].accrualStartDate = date(args.schedule, p)
            /\ leg[p + 1].accrualEndDate = date(args.schedule, p + 1)
        /\ \A p \in 1..(NDates - 2) :
            leg[p + 1].accrualStartDate = leg[p].accrualEndDate
        /\ \A p \in 1..(NDates - 3) :
            /\ leg[p + 1].refPeriodStart = leg[p + 1].accrualStartDate
            /\ leg[p + 1].refPeriodEnd = leg[p + 1].accrualEndDate

C12_Witness ==
    /\ ReturnedLeg
    /\ fn = "FixedRateCouponVector"
    /\ NDates = 5
    /\ ~isRegular(args.schedule, 2)
    /\ ~isRegular(args.schedule, 3)
    /\ \A p \in 1..3 : leg[p + 1].accrualStartDate = leg[p].accrualEndDate
    /\ leg[2].refPeriodStart = leg[2].accrualStartDate
    /\ leg[3].refPeriodEnd = leg[3].accrualEndDate

====
